---- MODULE Spec2Model ----
(***************************************************************************)
(* A model of src/parameter_validator.py: ParameterDefinition,            *)
(* ParameterValidator.add_parameter, ParameterValidator.validate and the   *)
(* per-parameter coercion and constraint checks it calls.                  *)
(*                                                                         *)
(* Python values are records [t, n, s]: t is the Python type, n the        *)
(* number (a bool is 0/1, a float is held in tenths, a list or dict holds   *)
(* its element count) and s the characters of a str.  A str is a sequence   *)
(* of one-character strings, so that len(), int(), float(), str.lower()    *)
(* and re.match() are computed and not assumed.                            *)
(***************************************************************************)
EXTENDS Integers, Sequences, FiniteSets, TLC

(***************************************************************************)
(* Bounds of the model.                                                    *)
(***************************************************************************)
\* how many keys outside the parameter names an input may carry
MaxExtra == 1
\* how many times the output of a successful validate is validated again
MaxChain == 1
\* the largest JSON integer among the raw input values
MaxNum == 5
\* how many threads call into one registry at the same time
MaxThreads == 2
\* how many requests the relay serves
MaxRequests == 4

(***************************************************************************)
(* Python values.                                                          *)
(***************************************************************************)
PyNone == [t |-> "NoneType", n |-> 0, s |-> <<>>]
PyStr(chars) == [t |-> "str", n |-> 0, s |-> chars]
PyInt(k) == [t |-> "int", n |-> k, s |-> <<>>]
\* a float, given in tenths: PyFloat(15) is 1.5
PyFloat(tenths) == [t |-> "float", n |-> tenths, s |-> <<>>]
\* float('nan'): a float that is not a number
PyNaN == [t |-> "float", n |-> 0, s |-> <<"n", "a", "n">>]
IsNaN(v) == v = PyNaN
PyBool(b) == [t |-> "bool", n |-> IF b THEN 1 ELSE 0, s |-> <<>>]
\* a list of k elements, each the integer 0
PyList(k) == [t |-> "list", n |-> k, s |-> <<>>]
\* a dict of k entries (k <= 1), the entry being 'k': 0
PyDict(k) == [t |-> "dict", n |-> k, s |-> <<>>]

\* Optional[T]: None is <<>>, a value x is <<x>>
Nothing == <<>>
Some(x) == <<x>>

IsNumber(v) == v.t \in {"int", "float", "bool"}
\* the number a numeric value stands for, in tenths (bool is a subclass of int)
Tenths(v) == IF v.t = "float" THEN v.n ELSE 10 * v.n

\* Python ==: numbers compare by value across int, float and bool; everything
\* else compares equal only within its own type; nan equals nothing
PyEq(a, b) ==
    IF IsNaN(a) \/ IsNaN(b) THEN FALSE
    ELSE IF IsNumber(a) /\ IsNumber(b) THEN Tenths(a) = Tenths(b)
    ELSE a.t = b.t /\ a.n = b.n /\ a.s = b.s

(***************************************************************************)
(* Text: str(), repr(), int(), float(), str.lower().                       *)
(***************************************************************************)
Digits == <<"0", "1", "2", "3", "4", "5", "6", "7", "8", "9">>
DigitSet == {Digits[i] : i \in 1..10}
DigitVal(c) == (CHOOSE i \in 1..10 : Digits[i] = c) - 1

LowerLetters == <<"a", "b", "c", "d", "e", "f", "g", "h", "i", "j", "k", "l", "m",
                  "n", "o", "p", "q", "r", "s", "t", "u", "v", "w", "x", "y", "z">>
UpperLetters == <<"A", "B", "C", "D", "E", "F", "G", "H", "I", "J", "K", "L", "M",
                  "N", "O", "P", "Q", "R", "S", "T", "U", "V", "W", "X", "Y", "Z">>
LowerSet == {LowerLetters[i] : i \in 1..26}
UpperSet == {UpperLetters[i] : i \in 1..26}

\* str.lower(), character by character
LowerChar(c) ==
    IF c \in UpperSet THEN LowerLetters[CHOOSE i \in 1..26 : UpperLetters[i] = c] ELSE c
Lower(chars) == [i \in 1..Len(chars) |-> LowerChar(chars[i])]

RECURSIVE NatChars(_)
\* the decimal digits of a natural number
NatChars(k) ==
    IF k < 10 THEN <<Digits[k + 1]>> ELSE NatChars(k \div 10) \o <<Digits[(k % 10) + 1]>>

IntChars(k) == IF k < 0 THEN <<"-">> \o NatChars(0 - k) ELSE NatChars(k)

\* repr() of a float held in tenths: 15 is 1.5, 50 is 5.0, -5 is -0.5
FloatChars(tenths) ==
    LET a == IF tenths < 0 THEN 0 - tenths ELSE tenths
    IN  (IF tenths < 0 THEN <<"-">> ELSE <<>>)
            \o NatChars(a \div 10) \o <<".">> \o <<Digits[(a % 10) + 1]>>

RECURSIVE ZeroList(_)
\* the inside of "[0, 0, 0]"
ZeroList(k) ==
    IF k = 0 THEN <<>>
    ELSE IF k = 1 THEN <<"0">>
    ELSE ZeroList(k - 1) \o <<",", " ", "0">>

\* str(value), as len(str(value)) and the f-strings of the messages use it
StrOf(v) ==
    CASE v.t = "str" -> v.s
      [] v.t = "int" -> IntChars(v.n)
      [] v.t = "float" -> IF IsNaN(v) THEN v.s ELSE FloatChars(v.n)
      [] v.t = "bool" -> IF v.n = 1 THEN <<"T", "r", "u", "e">>
                         ELSE <<"F", "a", "l", "s", "e">>
      [] v.t = "list" -> <<"[">> \o ZeroList(v.n) \o <<"]">>
      [] v.t = "dict" -> IF v.n = 0 THEN <<"{", "}">>
                         ELSE <<"{", "'", "k", "'", ":", " ", "0", "}">>
      [] OTHER -> <<"N", "o", "n", "e">>

\* repr(value): a str is quoted, everything else is as str()
ReprOf(v) == IF v.t = "str" THEN <<"'">> \o v.s \o <<"'">> ELSE StrOf(v)

RECURSIVE ReprItems(_)
ReprItems(vals) ==
    IF vals = <<>> THEN <<>>
    ELSE IF Len(vals) = 1 THEN ReprOf(vals[1])
    ELSE ReprOf(vals[1]) \o <<",", " ">> \o ReprItems(Tail(vals))

\* str() of a Python list of values
ReprList(vals) == <<"[">> \o ReprItems(vals) \o <<"]">>

RECURSIVE DigitsValue(_)
\* the number a non-empty sequence of digits denotes
DigitsValue(chars) ==
    IF Len(chars) = 1 THEN DigitVal(chars[1])
    ELSE 10 * DigitsValue(SubSeq(chars, 1, Len(chars) - 1)) + DigitVal(chars[Len(chars)])

AllDigits(chars) == chars # <<>> /\ \A i \in 1..Len(chars) : chars[i] \in DigitSet

HasSign(chars) == chars # <<>> /\ chars[1] \in {"-", "+"}
Unsigned(chars) == IF HasSign(chars) THEN Tail(chars) ELSE chars
Signed(chars, k) == IF HasSign(chars) /\ chars[1] = "-" THEN 0 - k ELSE k

\* int(text): an optional sign and decimal digits; [ok, n]
ParseInt(chars) ==
    IF AllDigits(Unsigned(chars))
    THEN [ok |-> TRUE, n |-> Signed(chars, DigitsValue(Unsigned(chars)))]
    ELSE [ok |-> FALSE, n |-> 0]

\* where the decimal point of a text is, 0 when it has none
PointAt(chars) ==
    IF \E i \in 1..Len(chars) : chars[i] = "."
    THEN CHOOSE i \in 1..Len(chars) : chars[i] = "." /\ \A j \in 1..(i - 1) : chars[j] # "."
    ELSE 0

\* float(text), in tenths: an optional sign, digits, and at most one digit after
\* the point (the floats of the model are tenths); [ok, n]
ParseFloat(chars) ==
    LET u == Unsigned(chars)
        p == PointAt(u)
        whole == IF p = 0 THEN u ELSE SubSeq(u, 1, p - 1)
        frac == IF p = 0 THEN <<>> ELSE SubSeq(u, p + 1, Len(u))
    IN  IF AllDigits(whole) /\ Len(frac) <= 1 /\ (frac = <<>> \/ AllDigits(frac))
        THEN [ok |-> TRUE,
              n |-> Signed(chars, 10 * DigitsValue(whole)
                                  + (IF frac = <<>> THEN 0 ELSE DigitVal(frac[1])))]
        ELSE [ok |-> FALSE, n |-> 0]

\* float(text) is nan for the text "nan" in any case, with an optional sign
IsNanText(chars) == Lower(Unsigned(chars)) = <<"n", "a", "n">>

\* int(x) of a float in tenths: truncation towards zero
Trunc(tenths) == IF tenths < 0 THEN 0 - ((0 - tenths) \div 10) ELSE tenths \div 10

(***************************************************************************)
(* ParameterDefinition.  An Optional field holds Nothing or Some(x); the   *)
(* default holds PyNone when no default was given.                         *)
(***************************************************************************)
ParameterType == {"string", "integer", "float", "boolean", "list", "dict"}

\* the dataclass with the field defaults of its declaration
ParameterDefinition(name, param_type, description, required, default) ==
    [name |-> name, param_type |-> param_type, description |-> description,
     required |-> required,
     default |-> default, allowed_values |-> Nothing, min_value |-> Nothing,
     max_value |-> Nothing, min_length |-> Nothing, max_length |-> Nothing,
     pattern |-> Nothing, custom_validator |-> Nothing, error_message |-> Nothing]

\* a constructor that checks nothing (changed code, for C9)
PostInitNeverRaises(d) == FALSE

\* __post_init__ rejects an optional parameter without a default
PostInitRaises(d) == ~d.required /\ d.default = PyNone

\* truth value of an Optional[str] field: None and "" are false
Truthy(opt) == opt # Nothing /\ opt[1] # ""

(***************************************************************************)
(* Outcomes of the per-parameter steps: a value, a ValidationError with    *)
(* its message, or another exception that leaves the function.  A message  *)
(* is the sequence of the pieces of its f-string.                          *)
(***************************************************************************)
Returns(v) == [exc |-> "none", value |-> v, msg |-> <<>>]
Raises(message) == [exc |-> "ValidationError", value |-> PyNone, msg |-> message]
Crashes(kind) == [exc |-> kind, value |-> PyNone, msg |-> <<>>]

\* changed code, for C19: re.search in place of re.match, the pattern may
\* match anywhere in the text
ReSearch(pattern, chars) ==
    CASE pattern = "^[a-z]{2}$" ->
            /\ Len(chars) \in {2, 3}
            /\ chars[1] \in LowerSet /\ chars[2] \in LowerSet
            /\ (Len(chars) = 3 => chars[3] = "\n")
      [] pattern = "[a-z]{2}" ->
            \E i \in 1..(Len(chars) - 1) : chars[i] \in LowerSet /\ chars[i + 1] \in LowerSet
      [] OTHER -> FALSE

\* re.match(pattern, text), which matches at the start of the text only, for
\* the pattern of create_translation_validator (two lower-case letters, $
\* matching at the end or before a final newline) and for the same pattern
\* without anchors (two lower-case letters, anything after them)
ReMatch(pattern, chars) ==
    CASE pattern = "^[a-z]{2}$" ->
            /\ Len(chars) \in {2, 3}
            /\ chars[1] \in LowerSet /\ chars[2] \in LowerSet
            /\ (Len(chars) = 3 => chars[3] = "\n")
      [] pattern = "[a-z]{2}" ->
            Len(chars) >= 2 /\ chars[1] \in LowerSet /\ chars[2] \in LowerSet
      [] OTHER -> FALSE

\* custom_validator(value): [exc, truth]; is_even is value % 2 == 0, which
\* raises TypeError on a str without a conversion specifier, a list or a dict
CallCustom(fn, value) ==
    CASE fn = "is_even" ->
            IF value.t \in {"int", "bool"} THEN [exc |-> "none", truth |-> value.n % 2 = 0]
            ELSE IF value.t = "float"
            THEN [exc |-> "none", truth |-> ~IsNaN(value) /\ value.n % 20 = 0]
            ELSE [exc |-> "TypeError", truth |-> FALSE]
      [] OTHER -> [exc |-> "none", truth |-> TRUE]

\* value < bound and value > bound of Python: defined between numbers, a
\* TypeError between a str, list or dict and a number
Comparable(value, bound) == IsNumber(value) /\ IsNumber(bound)

\* every comparison with nan is false
PyLess(value, bound) ==
    ~IsNaN(value) /\ ~IsNaN(bound) /\ Tenths(value) < Tenths(bound)

(***************************************************************************)
(* ParameterValidator._validate_type                                       *)
(***************************************************************************)
TypeMessage(name, what, value) ==
    <<"Parameter '", name, "' must be ", what, ", got '">> \o StrOf(value) \o <<"'">>

ContainerMessage(name, what, value) ==
    <<"Parameter '", name, "' must be ", what, ", got ", value.t>>

\* changed code, for C15: a string parameter takes a str and nothing else
CoerceStringStrict(name, value) ==
    IF value.t # "str" THEN Raises(TypeMessage(name, "a string", value))
    ELSE Returns(value)

\* STRING: str(value) unless the value is a str already
CoerceString(name, value) ==
    IF value.t # "str" THEN Returns(PyStr(StrOf(value))) ELSE Returns(value)

\* INTEGER: int(value), ValueError and TypeError becoming a ValidationError
CoerceInteger(name, value) ==
    CASE value.t \in {"int", "bool"} -> Returns(PyInt(value.n))
      [] value.t = "float" /\ ~IsNaN(value) -> Returns(PyInt(Trunc(value.n)))
      [] value.t = "str" /\ ParseInt(value.s).ok -> Returns(PyInt(ParseInt(value.s).n))
      [] OTHER -> Raises(TypeMessage(name, "an integer", value))

\* FLOAT: float(value), ValueError and TypeError becoming a ValidationError
\* (the texts float() takes beyond decimal numerals and nan - inf, exponents,
\* surrounding blanks - are not among the raw values of the model)
CoerceFloat(name, value) ==
    CASE value.t \in {"int", "bool"} -> Returns(PyFloat(10 * value.n))
      [] value.t = "float" -> Returns(value)
      [] value.t = "str" /\ ParseFloat(value.s).ok ->
            Returns(PyFloat(ParseFloat(value.s).n))
      [] value.t = "str" /\ IsNanText(value.s) -> Returns(PyNaN)
      [] OTHER -> Raises(TypeMessage(name, "a float", value))

\* changed code, for C14: a boolean parameter takes the truth value of
\* whatever it is given
CoerceBooleanTruthy(name, value) ==
    CASE value.t = "str" -> Returns(PyBool(value.s # <<>>))
      [] OTHER -> Returns(PyBool(value.n # 0))

\* BOOLEAN: a bool, or one of six words in any case
CoerceBoolean(name, value) ==
    CASE value.t = "bool" -> Returns(value)
      [] value.t = "str"
           /\ Lower(value.s) \in {<<"t", "r", "u", "e">>, <<"1">>, <<"y", "e", "s">>} ->
            Returns(PyBool(TRUE))
      [] value.t = "str"
           /\ Lower(value.s) \in {<<"f", "a", "l", "s", "e">>, <<"0">>, <<"n", "o">>} ->
            Returns(PyBool(FALSE))
      [] OTHER -> Raises(TypeMessage(name, "a boolean", value))

ValidateType(name, value, param_def) ==
    CASE param_def.param_type = "string" -> CoerceString(name, value)
      [] param_def.param_type = "integer" -> CoerceInteger(name, value)
      [] param_def.param_type = "float" -> CoerceFloat(name, value)
      [] param_def.param_type = "boolean" -> CoerceBoolean(name, value)
      [] param_def.param_type = "list" ->
            IF value.t # "list" THEN Raises(ContainerMessage(name, "a list", value))
            ELSE Returns(value)
      [] param_def.param_type = "dict" ->
            IF value.t # "dict" THEN Raises(ContainerMessage(name, "a dict", value))
            ELSE Returns(value)
      [] OTHER -> Returns(value)

(***************************************************************************)
(* ParameterValidator._validate_parameter                                  *)
(***************************************************************************)
MissingMessage(name, param_def) ==
    IF Truthy(param_def.error_message) THEN <<param_def.error_message[1]>>
    ELSE <<"Required parameter '", name, "' is missing">>

AllowedMessage(name, param_def, value) ==
    <<"Parameter '", name, "' must be one of ">> \o ReprList(param_def.allowed_values[1])
        \o <<", got '">> \o StrOf(value) \o <<"'">>

RangeMessage(name, op, bound, value) ==
    <<"Parameter '", name, "' must be ", op, " ">> \o StrOf(bound)
        \o <<", got ">> \o StrOf(value)

LengthMessage(name, op, bound) ==
    <<"Parameter '", name, "' must have length ", op, " ">> \o IntChars(bound)

\* changed code, for C20: the pattern violation takes the error_message of
\* the definition when it has one
PatternMessageOverridden(name, param_def) ==
    IF Truthy(param_def.error_message) THEN <<param_def.error_message[1]>>
    ELSE <<"Parameter '", name, "' does not match required pattern: ", param_def.pattern[1]>>

PatternMessage(name, param_def) ==
    <<"Parameter '", name, "' does not match required pattern: ", param_def.pattern[1]>>

CustomMessage(name, param_def) ==
    IF Truthy(param_def.error_message) THEN <<param_def.error_message[1]>>
    ELSE <<"Parameter '", name, "' failed custom validation">>

InAllowed(value, param_def) ==
    \E i \in 1..Len(param_def.allowed_values[1]) : PyEq(value, param_def.allowed_values[1][i])

\* changed code, for C11: an exception of the custom validator is caught and
\* recorded as a failed custom validation
CustomVerdictMasks(name, value, param_def, called) ==
    IF called.exc # "none" \/ ~called.truth THEN Raises(CustomMessage(name, param_def))
    ELSE Returns(value)

\* the checks that follow coercion, each handing on to the next one of the
\* code when it passes: custom validator (last), given what the call of the
\* validator yielded
CustomVerdict(name, value, param_def, called) ==
    IF called.exc # "none" THEN Crashes(called.exc)
    ELSE IF ~called.truth THEN Raises(CustomMessage(name, param_def))
    ELSE Returns(value)

CheckCustom(name, value, param_def) ==
    IF param_def.custom_validator # Nothing
    THEN CustomVerdict(name, value, param_def,
                       CallCustom(param_def.custom_validator[1], value))
    ELSE Returns(value)

\* pattern, for a str only
CheckPattern(name, value, param_def) ==
    IF Truthy(param_def.pattern) /\ value.t = "str"
         /\ ~ReMatch(param_def.pattern[1], value.s)
    THEN Raises(PatternMessage(name, param_def))
    ELSE CheckCustom(name, value, param_def)

\* changed code, for C18: the length bounds are applied to a str only
CheckLengthOfStrOnly(name, value, param_def) ==
    IF value.t = "str" /\ param_def.min_length # Nothing
         /\ Len(value.s) < param_def.min_length[1]
    THEN Raises(LengthMessage(name, ">=", param_def.min_length[1]))
    ELSE IF value.t = "str" /\ param_def.max_length # Nothing
              /\ Len(value.s) > param_def.max_length[1]
    THEN Raises(LengthMessage(name, "<=", param_def.max_length[1]))
    ELSE CheckPattern(name, value, param_def)

\* length of str(value): min_length, then max_length
CheckLength(name, value, param_def) ==
    IF param_def.min_length # Nothing /\ Len(StrOf(value)) < param_def.min_length[1]
    THEN Raises(LengthMessage(name, ">=", param_def.min_length[1]))
    ELSE IF param_def.max_length # Nothing /\ Len(StrOf(value)) > param_def.max_length[1]
    THEN Raises(LengthMessage(name, "<=", param_def.max_length[1]))
    ELSE CheckPattern(name, value, param_def)

\* value < min_value, then value > max_value
CheckRange(name, value, param_def) ==
    IF param_def.min_value # Nothing /\ ~Comparable(value, param_def.min_value[1])
    THEN Crashes("TypeError")
    ELSE IF param_def.min_value # Nothing /\ PyLess(value, param_def.min_value[1])
    THEN Raises(RangeMessage(name, ">=", param_def.min_value[1], value))
    ELSE IF param_def.max_value # Nothing /\ ~Comparable(value, param_def.max_value[1])
    THEN Crashes("TypeError")
    ELSE IF param_def.max_value # Nothing /\ PyLess(param_def.max_value[1], value)
    THEN Raises(RangeMessage(name, "<=", param_def.max_value[1], value))
    ELSE CheckLength(name, value, param_def)

\* changed code, for C22: the allowed-values check is made after the other
\* checks instead of before them
CheckAllowedLast(name, value, param_def) ==
    IF CheckRange(name, value, param_def).exc # "none"
    THEN CheckRange(name, value, param_def)
    ELSE IF param_def.allowed_values # Nothing /\ ~InAllowed(value, param_def)
    THEN Raises(AllowedMessage(name, param_def, value))
    ELSE Returns(value)

\* allowed values (first)
CheckAllowed(name, value, param_def) ==
    IF param_def.allowed_values # Nothing /\ ~InAllowed(value, param_def)
    THEN Raises(AllowedMessage(name, param_def, value))
    ELSE CheckRange(name, value, param_def)

\* the constraint checks on what _validate_type yielded, unless it raised
CheckCoerced(name, coerced, param_def) ==
    IF coerced.exc # "none" THEN coerced
    ELSE CheckAllowed(name, coerced.value, param_def)

\* changed code, for C3: a default goes through coercion and the checks like
\* a value of the input
ValidateParameterChecksDefault(name, value, param_def) ==
    IF value = PyNone
    THEN IF param_def.required THEN Raises(MissingMessage(name, param_def))
         ELSE CheckCoerced(name, ValidateType(name, param_def.default, param_def),
                           param_def)
    ELSE CheckCoerced(name, ValidateType(name, value, param_def), param_def)

\* changed code, for C16: membership in allowed_values is asked of the raw
\* value, before coercion
ValidateParameterAllowedOnRaw(name, value, param_def) ==
    IF value = PyNone
    THEN IF param_def.required THEN Raises(MissingMessage(name, param_def))
         ELSE Returns(param_def.default)
    ELSE IF param_def.allowed_values # Nothing /\ ~InAllowed(value, param_def)
    THEN Raises(AllowedMessage(name, param_def, value))
    ELSE CheckCoerced(name, ValidateType(name, value, param_def),
                      [param_def EXCEPT !.allowed_values = Nothing])

\* changed code, for C6: the pattern is applied when the raw value, not the
\* coerced one, is a str
ValidateParameterRawPattern(name, value, param_def) ==
    IF value = PyNone
    THEN IF param_def.required THEN Raises(MissingMessage(name, param_def))
         ELSE Returns(param_def.default)
    ELSE CheckCoerced(name, ValidateType(name, value, param_def),
                      IF value.t = "str" THEN param_def
                      ELSE [param_def EXCEPT !.pattern = Nothing])

ValidateParameter(name, value, param_def) ==
    IF value = PyNone
    THEN IF param_def.required THEN Raises(MissingMessage(name, param_def))
         ELSE Returns(param_def.default)
    ELSE CheckCoerced(name, ValidateType(name, value, param_def), param_def)

(***************************************************************************)
(* ParameterValidator: the registry and validate.                          *)
(* self.parameters is a dict, which keeps insertion order: it is the        *)
(* sequence of its definitions, no two with the same name.  An input or an  *)
(* output mapping is a function from its keys to values.                    *)
(***************************************************************************)
EmptyMap == [k \in {} |-> PyNone]

\* dict.get(name): None for a key that is not there
Get(mapping, name) == IF name \in DOMAIN mapping THEN mapping[name] ELSE PyNone

DefinedNames(params) == {params[i].name : i \in 1..Len(params)}

\* self.parameters[param_def.name] = param_def: a new name goes last, a name
\* already there keeps its place and takes the new definition
DictSet(params, param_def) ==
    IF param_def.name \in DefinedNames(params)
    THEN [i \in 1..Len(params) |->
            IF params[i].name = param_def.name THEN param_def ELSE params[i]]
    ELSE Append(params, param_def)

RECURSIVE JoinComma(_)
\* ', '.join(keys)
JoinComma(keys) ==
    IF keys = <<>> THEN <<>>
    ELSE IF Len(keys) = 1 THEN <<keys[1]>>
    ELSE <<keys[1], ", ">> \o JoinComma(Tail(keys))

UnexpectedMessage(order) == <<"Unexpected parameters: ">> \o JoinComma(order)

\* the orders in which iterating a Python set may yield its elements
SetOrders(S) ==
    {order \in [1..Cardinality(S) -> S] :
        \A i, j \in 1..Cardinality(S) : order[i] = order[j] => i = j}

\* validated[name] = value, when _validate_parameter returned
Stored(validated_so_far, name, r) ==
    IF r.exc = "none" THEN (name :> r.value) @@ validated_so_far ELSE validated_so_far

\* errors.append(str(e)), when _validate_parameter raised ValidationError
Recorded(errors_so_far, r) ==
    IF r.exc = "ValidationError" THEN Append(errors_so_far, r.msg) ELSE errors_so_far

\* an exception other than ValidationError is not caught by the loop
Escapes(r) == r.exc \notin {"none", "ValidationError"}

LoopResult(exc, validated_so_far, errors_so_far) ==
    [exc |-> exc, validated |-> validated_so_far, errors |-> errors_so_far]

RECURSIVE ValidateLoopFailFast(_, _, _, _, _)
RECURSIVE FailFastStep(_, _, _, _, _, _)
\* changed code, for C1: the loop stops at the first ValidationError
FailFastStep(params, i, input, validated_so_far, errors_so_far, r) ==
    IF r.exc # "none"
    THEN LoopResult(IF Escapes(r) THEN r.exc ELSE "none", validated_so_far,
                    Recorded(errors_so_far, r))
    ELSE ValidateLoopFailFast(params, i + 1, input,
                              Stored(validated_so_far, params[i].name, r),
                              errors_so_far)

ValidateLoopFailFast(params, i, input, validated_so_far, errors_so_far) ==
    IF i > Len(params)
    THEN LoopResult("none", validated_so_far, errors_so_far)
    ELSE FailFastStep(params, i, input, validated_so_far, errors_so_far,
                      ValidateParameter(params[i].name, Get(input, params[i].name),
                                        params[i]))

RECURSIVE ValidateLoopInputKeysOnly(_, _, _, _, _)
RECURSIVE InputKeysOnlyStep(_, _, _, _, _, _)
\* changed code, for C4: only the parameters the input names get an entry
InputKeysOnlyStep(params, i, input, validated_so_far, errors_so_far, r) ==
    IF Escapes(r)
    THEN LoopResult(r.exc, validated_so_far, errors_so_far)
    ELSE ValidateLoopInputKeysOnly(params, i + 1, input,
            IF params[i].name \in DOMAIN input
            THEN Stored(validated_so_far, params[i].name, r)
            ELSE validated_so_far,
            Recorded(errors_so_far, r))

ValidateLoopInputKeysOnly(params, i, input, validated_so_far, errors_so_far) ==
    IF i > Len(params)
    THEN LoopResult("none", validated_so_far, errors_so_far)
    ELSE InputKeysOnlyStep(params, i, input, validated_so_far, errors_so_far,
                           ValidateParameter(params[i].name,
                                             Get(input, params[i].name), params[i]))

RECURSIVE ValidateLoop(_, _, _, _, _)
RECURSIVE LoopStep(_, _, _, _, _, _)
\* one turn of the for loop of validate, r being what _validate_parameter
\* did for definition i: its value is stored or its ValidationError recorded
\* and the loop goes on; any other exception leaves the loop
LoopStep(params, i, input, validated_so_far, errors_so_far, r) ==
    IF Escapes(r)
    THEN LoopResult(r.exc, validated_so_far, errors_so_far)
    ELSE ValidateLoop(params, i + 1, input,
                      Stored(validated_so_far, params[i].name, r),
                      Recorded(errors_so_far, r))

\* the for loop of validate from definition i on
ValidateLoop(params, i, input, validated_so_far, errors_so_far) ==
    IF i > Len(params)
    THEN LoopResult("none", validated_so_far, errors_so_far)
    ELSE LoopStep(params, i, input, validated_so_far, errors_so_far,
                  ValidateParameter(params[i].name, Get(input, params[i].name),
                                    params[i]))

\* changed code, for C7: the unexpected-parameters message is put first
WithUnexpectedFirst(params, input, order, errors_so_far) ==
    IF DOMAIN input \ DefinedNames(params) # {}
    THEN <<UnexpectedMessage(order)>> \o errors_so_far
    ELSE errors_so_far

\* the unexpected-parameters check that follows the loop
WithUnexpected(params, input, order, errors_so_far) ==
    IF DOMAIN input \ DefinedNames(params) # {}
    THEN Append(errors_so_far, UnexpectedMessage(order))
    ELSE errors_so_far

\* how validate ends once the loop is over: "returned" with the mapping in
\* validated, "ValidationError" with the joined messages in errors (one
\* element per line of the "\n".join), or the exception that escaped
CallResult(loop, all_errors) ==
    IF loop.exc # "none"
    THEN [outcome |-> loop.exc, validated |-> EmptyMap, errors |-> <<>>]
    ELSE IF all_errors # <<>>
    THEN [outcome |-> "ValidationError", validated |-> EmptyMap, errors |-> all_errors]
    ELSE [outcome |-> "returned", validated |-> loop.validated, errors |-> <<>>]

\* the errors of the loop and of the unexpected-parameters check
AllErrors(params, input, order, loop) ==
    WithUnexpected(params, input, order, loop.errors)

ValidateEnd(params, input, order, loop) ==
    CallResult(loop, AllErrors(params, input, order, loop))

\* validate(input): what the caller gets.  order is the iteration order of
\* the set of unexpected keys.
ValidateCall(params, input, order) ==
    ValidateEnd(params, input, order, ValidateLoop(params, 1, input, EmptyMap, <<>>))

(***************************************************************************)
(* ParameterValidator.generate_documentation.  The text is the sequence of *)
(* the pieces the code appends to doc.                                     *)
(***************************************************************************)
DocHeader ==
    <<"# Parameter Definitions\n\n",
      "Complete list of parameters, types, defaults, and validation rules.\n\n">>

\* the backtick of the source, which a TLA+ string cannot hold
Tick == "BACKTICK"

RECURSIVE JoinTicked(_)
\* the allowed values, each between backticks, joined by ', '
JoinTicked(vals) ==
    IF vals = <<>> THEN <<>>
    ELSE IF Len(vals) = 1 THEN <<Tick>> \o StrOf(vals[1]) \o <<Tick>>
    ELSE <<Tick>> \o StrOf(vals[1]) \o <<Tick, ", ">> \o JoinTicked(Tail(vals))

\* truth value of an Optional number: None and zero are false
TruthyNumber(opt) == opt # Nothing /\ (IsNaN(opt[1]) \/ opt[1].n # 0)

\* {param.min_value or '-inf'} to {param.max_value or 'inf'}: a bound that is
\* None or zero shows as unbounded (the source writes the sign for infinity,
\* given here in ASCII)
DocRange(param) ==
    (IF TruthyNumber(param.min_value) THEN StrOf(param.min_value[1]) ELSE <<"-INFINITY">>)
        \o <<" to ">>
        \o (IF TruthyNumber(param.max_value) THEN StrOf(param.max_value[1]) ELSE <<"INFINITY">>)

\* {param.min_length or 0} to {param.max_length or 'unlimited'} characters
DocLength(param) ==
    (IF param.min_length # Nothing THEN IntChars(param.min_length[1]) ELSE <<"0">>)
        \o <<" to ">>
        \o (IF param.max_length # Nothing /\ param.max_length[1] # 0
            THEN IntChars(param.max_length[1]) ELSE <<"unlimited">>)
        \o <<" characters">>

\* what one turn of the loop appends for a definition
DocSection(param) ==
    <<"## ", param.name, "\n\n",
      "**Description:** ", param.description, "\n\n",
      "**Type:** ", Tick, param.param_type, Tick, "\n\n",
      "**Required:** ", IF param.required THEN "Yes" ELSE "No", "\n\n">>
    \o (IF param.default # PyNone
        THEN <<"**Default:** ", Tick>> \o StrOf(param.default) \o <<Tick, "\n\n">> ELSE <<>>)
    \o (IF param.allowed_values # Nothing /\ param.allowed_values[1] # <<>>
        THEN <<"**Allowed Values:** ">> \o JoinTicked(param.allowed_values[1]) \o <<"\n\n">>
        ELSE <<>>)
    \o (IF param.min_value # Nothing \/ param.max_value # Nothing
        THEN <<"**Range:** ">> \o DocRange(param) \o <<"\n\n">> ELSE <<>>)
    \o (IF param.min_length # Nothing \/ param.max_length # Nothing
        THEN <<"**Length:** ">> \o DocLength(param) \o <<"\n\n">> ELSE <<>>)
    \o (IF Truthy(param.pattern) THEN <<"**Pattern:** ", Tick, param.pattern[1], Tick, "\n\n">>
        ELSE <<>>)
    \o <<"---\n\n">>

RECURSIVE DocLoop(_, _, _)
\* the for loop of generate_documentation from definition i on
DocLoop(params, i, doc) ==
    IF i > Len(params) THEN doc
    ELSE DocLoop(params, i + 1, doc \o DocSection(params[i]))

\* generate_documentation(): the text returned
GenerateDocumentation(params) == DocLoop(params, 1, DocHeader)

(***************************************************************************)
(* The inputs the model draws: parameter names, constructor calls and      *)
(* input mappings.                                                         *)
(***************************************************************************)
ParamNames == {"type", "text"}
ExtraNames == <<"extra", "extra_param", "other", "more">>
ExtraKeys == {ExtraNames[i] : i \in 1..MaxExtra}

en == <<"e", "n">>
eng == <<"e", "n", "g">>

\* the raw JSON values of an input
RawValues ==
    {PyNone, PyStr(en), PyStr(eng), PyStr(<<"5">>), PyStr(<<"Y", "e", "s">>),
     PyStr(<<"N", "O">>), PyStr(<<"n", "a", "n">>), PyInt(0), PyInt(MaxNum), PyFloat(15), PyBool(TRUE), PyList(1), PyDict(0)}

\* the input mappings: each parameter name absent or with a raw value, and
\* any of the extra keys (validate never reads the value of an unknown key).
\* A mapping is built where a call is made with it, every call having a
\* mapping of its own: Inputs(keys) are the mappings with exactly these keys
Inputs(keys) == [keys -> RawValues]

ExtraInputs(extra) == [k \in extra |-> PyStr(<<"x">>)]

\* the ParameterDefinition(...) calls made for a name: those of
\* create_translation_validator and of the tests (with short texts and
\* lengths), and definitions the constructor accepts without cross-checking
ConstructorCalls(name) ==
    LET d(param_type, required, default) ==
            ParameterDefinition(name, param_type, "Description", required, default)
    IN  { \* type: required, allowed values, error message
          [d("string", TRUE, PyNone) EXCEPT
              !.allowed_values = Some(<<PyStr(en), PyStr(<<"e", "s">>)>>),
              !.error_message = Some("Type must be either 'prescription' or 'symptom'")],
          \* language_origin: optional with a default and a pattern
          [d("string", FALSE, PyStr(en)) EXCEPT
              !.pattern = Some("^[a-z]{2}$"),
              !.error_message = Some("Language code must be 2 lowercase letters")],
          \* text: required, length bounds
          [d("string", TRUE, PyNone) EXCEPT
              !.min_length = Some(2), !.max_length = Some(3),
              !.error_message = Some("Text must be between 1 and 5000 characters")],
          \* confidence_threshold: optional float in 0.0 .. 1.0, default 0.8
          [d("float", FALSE, PyFloat(8)) EXCEPT
              !.min_value = Some(PyFloat(0)), !.max_value = Some(PyFloat(10))],
          \* rating: required integer in 1 .. 5
          [d("integer", TRUE, PyNone) EXCEPT
              !.min_value = Some(PyInt(1)), !.max_value = Some(PyInt(5))],
          \* even_number: required integer with a custom validator
          [d("integer", TRUE, PyNone) EXCEPT
              !.custom_validator = Some("is_even"),
              !.error_message = Some("Number must be even")],
          \* page: optional integer, default 1
          d("integer", FALSE, PyInt(1)),
          \* active, tags, metadata: required boolean, list, dict
          d("boolean", TRUE, PyNone),
          d("list", TRUE, PyNone),
          d("dict", TRUE, PyNone),
          \* numeric bounds on a string parameter
          [d("string", TRUE, PyNone) EXCEPT !.min_value = Some(PyInt(1))],
          \* a default that does not match the parameter's own pattern
          [d("string", FALSE, PyStr(eng)) EXCEPT !.pattern = Some("^[a-z]{2}$")],
          \* a default that is not of the parameter's type
          d("integer", FALSE, PyStr(<<"5">>)),
          \* a custom validator that raises on the coerced value
          [d("string", TRUE, PyNone) EXCEPT !.custom_validator = Some("is_even")],
          \* optional without a default
          d("string", FALSE, PyNone),
          \* allowed values of an integer parameter
          [d("integer", TRUE, PyNone) EXCEPT !.allowed_values = Some(<<PyInt(5)>>)],
          \* a length bound on a boolean parameter
          [d("boolean", TRUE, PyNone) EXCEPT !.max_length = Some(4)],
          \* a pattern on an integer parameter
          [d("integer", TRUE, PyNone) EXCEPT !.pattern = Some("^[a-z]{2}$")],
          \* a range and an error message
          [d("integer", TRUE, PyNone) EXCEPT
              !.min_value = Some(PyInt(1)), !.max_value = Some(PyInt(5)),
              !.error_message = Some("Rating must be between 1 and 5")],
          \* a pattern without anchors
          [d("string", TRUE, PyNone) EXCEPT !.pattern = Some("[a-z]{2}")] }

(***************************************************************************)
(* main.py: the relay between frontend, translation team and backend.      *)
(* A str is the sequence of its pieces, " " being white space.  A          *)
(* temporary file is Nothing when it does not exist and Some(content)      *)
(* otherwise.  The timestamp and the client address of a log entry are     *)
(* left out.                                                               *)
(***************************************************************************)
TRANSLATION_INPUT == "translation_input.json"
TRANSLATION_OUTPUT == "translation_output.json"
BACKEND_INPUT == "lookup_input.json"
BACKEND_OUTPUT == "lookup_output.json"

TempFiles == {TRANSLATION_INPUT, TRANSLATION_OUTPUT, BACKEND_INPUT, BACKEND_OUTPUT}

RECURSIVE StripLeft(_)
StripLeft(text) ==
    IF text # <<>> /\ text[1] = " " THEN StripLeft(Tail(text)) ELSE text

RECURSIVE StripRight(_)
StripRight(text) ==
    IF text # <<>> /\ text[Len(text)] = " "
    THEN StripRight(SubSeq(text, 1, Len(text) - 1)) ELSE text

\* str.strip()
Strip(text) == StripRight(StripLeft(text))

\* log_event(event, details): one more line in the log file
LogEvent(entries, event, details) ==
    Append(entries, [event |-> event, details |-> details])

\* changed code, for C24: cleanup_all leaves the frontend input in place
CleanupAllButFrontendInput(disk) ==
    [files |-> [f \in TempFiles |->
                    IF f = TRANSLATION_INPUT THEN disk.files[f] ELSE Nothing],
     log |-> LogEvent(disk.log, "cleanup", <<"all temp JSONs deleted">>)]

\* cleanup_all(): every temporary file that exists is removed, and the
\* cleanup is logged
CleanupAll(disk) ==
    [files |-> [f \in TempFiles |-> Nothing],
     log |-> LogEvent(disk.log, "cleanup", <<"all temp JSONs deleted">>)]

\* write_json(path, data)
WriteJson(fs, path, data) == [fs EXCEPT ![path] = Some(data)]

\* raise HTTPException(status, detail)
HTTPException(handler, status, detail) ==
    [handler |-> handler, status |-> status, body |-> detail]

\* return {"status": "OK", "message": message}, answered with 200
Ok(handler, message) ==
    [handler |-> handler, status |-> 200, body |-> <<"OK", message>>]

\* an exception the handler does not catch: the server answers 500
InternalServerError(handler, exception) ==
    [handler |-> handler, status |-> 500, body |-> <<"Internal Server Error", exception>>]

\* the requests of the model: two flows, each with its own medication and
\* requested language, and the requests the handlers reject
Flows == 1..2
Medications == <<"aspirin", "ibuprofen">>
RequestedLanguages == <<"es", "fr">>
Translations == <<"aspirina", "ibuprofene">>

\* FrontendInput bodies
FrontendInputs ==
    LET body(language, requested, medication) ==
            [original_language |-> language, requested_language |-> requested,
             original_medication |-> medication]
    IN  {body(<<"en">>, <<RequestedLanguages[f]>>, <<Medications[f]>>) : f \in Flows}
        \cup {body(<<>>, <<"es">>, <<"aspirin">>),
              body(<<"en">>, <<" ">>, <<"aspirin">>),
              body(<<"en">>, <<"es">>, <<" ", " ">>)}

\* TranslationInput bodies
TranslationInputs ==
    {[translated_medication |-> <<" ", Translations[f], " ">>, supported |-> TRUE,
      message |-> Nothing] : f \in Flows}
    \cup {[translated_medication |-> <<>>, supported |-> FALSE,
           message |-> Some("unsupported language")],
          [translated_medication |-> <<" ">>, supported |-> TRUE, message |-> Nothing]}

\* an element of matches: a dict with the keys it has, or a str
MatchDict(generic, brand) == [t |-> "dict", generic |-> generic, brand |-> brand]
MatchStr == [t |-> "str", generic |-> Nothing, brand |-> Nothing]

\* BackendInputModel bodies (matches: list takes a list of anything)
BackendInputModels ==
    {[matches |-> <<>>, success |-> FALSE],
     [matches |-> <<MatchDict(Some("acetylsalicylic acid"), Some("Aspirin")),
                    MatchDict(Some("ibuprofen"), Nothing)>>, success |-> TRUE],
     [matches |-> <<MatchDict(Some("ibuprofen"), Some("Advil")), MatchStr>>,
      success |-> TRUE]}

(***************************************************************************)
(* State.                                                                  *)
(***************************************************************************)
VARIABLES
    parameters,     \* ParameterValidator.parameters, in insertion order
    input_params,   \* the input of the validate call that has ended
    outcome,        \* how the last call ended: "idle" (nothing to report),
                    \* "returned", "ValidationError", or the exception that
                    \* escaped ("ValueError" of a constructor, "TypeError")
    validated,      \* the mapping validate returned
    errors,         \* the messages of the ValidationError validate raised
    chain,          \* how many times the output has been fed back as the input
    previous_input, \* the input of the previous call of the chain
    previous,       \* the mapping the previous call of the chain returned
    threads,        \* the calls in progress on a shared registry: for each
                    \* thread its place in validate or generate_documentation
                    \* and the locals of the call
    files,          \* the temporary JSON files of the relay (main.py): for
                    \* each path its content, or Nothing when it does not exist
    log,            \* the entries of middleware.log, oldest first
    response        \* what the relay answered to the last request

vars == <<parameters, input_params, outcome, validated, errors,
          chain, previous_input, previous, threads, files, log, response>>

Threads == 1..MaxThreads

\* no call in progress, the locals unbound
Idle ==
    [pc |-> "idle", call |-> "none", input |-> EmptyMap, i |-> 0,
     validated |-> EmptyMap, errors |-> <<>>, doc |-> <<>>,
     result |-> [outcome |-> "none", validated |-> EmptyMap, errors |-> <<>>, doc |-> <<>>]]

\* the relay has served nothing: no temporary file, an empty log
RelayInit ==
    /\ files = [f \in TempFiles |-> Nothing]
    /\ log = <<>>
    /\ response = [handler |-> "none", status |-> 0, body |-> <<>>]

Init ==
    /\ parameters = <<>>
    /\ input_params = EmptyMap
    /\ outcome = "idle"
    /\ validated = EmptyMap
    /\ errors = <<>>
    /\ chain = 0
    /\ previous_input = EmptyMap
    /\ previous = EmptyMap
    /\ threads = [t \in Threads |-> Idle]
    /\ RelayInit

\* validator.add_parameter(ParameterDefinition(...)): when __post_init__
\* raises ValueError no definition comes into being and add_parameter is not
\* reached; otherwise the definition is registered
AddParameter(d) ==
    /\ outcome = "idle"
    /\ IF PostInitRaises(d)
       THEN outcome' = "ValueError" /\ parameters' = parameters
       ELSE outcome' = "idle" /\ parameters' = DictSet(parameters, d)
    /\ UNCHANGED <<input_params, validated, errors, chain, previous_input, previous,
                   threads, files, log, response>>

\* what a call of validate leaves behind
Leaves(input, call) ==
    /\ input_params' = input
    /\ outcome' = call.outcome
    /\ validated' = call.validated
    /\ errors' = call.errors

Ended(input, order) == Leaves(input, ValidateCall(parameters, input, order))

\* validator.validate(input) on a fresh input
Validate(input) ==
    /\ outcome = "idle"
    /\ \E order \in SetOrders(DOMAIN input \ DefinedNames(parameters)) :
            Ended(input, order)
    /\ chain' = 0
    /\ previous_input' = EmptyMap
    /\ previous' = EmptyMap
    /\ UNCHANGED <<parameters, threads, files, log, response>>

\* validator.validate(result), result being what the last call returned
Revalidate ==
    /\ outcome = "returned"
    /\ chain < MaxChain
    /\ \E order \in SetOrders(DOMAIN validated \ DefinedNames(parameters)) :
            Ended(validated, order)
    /\ chain' = chain + 1
    /\ previous_input' = input_params
    /\ previous' = validated
    /\ UNCHANGED <<parameters, threads, files, log, response>>

\* the caller is done with the outcome of the call
Finish ==
    /\ outcome # "idle"
    /\ input_params' = EmptyMap
    /\ outcome' = "idle"
    /\ validated' = EmptyMap
    /\ errors' = <<>>
    /\ chain' = 0
    /\ previous_input' = EmptyMap
    /\ previous' = EmptyMap
    /\ UNCHANGED <<parameters, threads, files, log, response>>

AddParameterAny ==
    \E name \in ParamNames : \E d \in ConstructorCalls(name) : AddParameter(d)

ValidateAny ==
    \E keys \in SUBSET ParamNames : \E known \in Inputs(keys) :
        \E extra \in SUBSET ExtraKeys : Validate(known @@ ExtraInputs(extra))

Next ==
    \/ AddParameterAny
    \/ ValidateAny
    \/ Revalidate
    \/ Finish

Spec == Init /\ [][Next]_vars

(***************************************************************************)
(* Concurrent callers.  Registration is over: the registry is one of       *)
(* SharedRegistries and threads call validate and generate_documentation   *)
(* on it, a step of a thread being one turn of a loop of the code.         *)
(* validated, errors and doc are locals of a call: they live in the        *)
(* frame of the calling thread.                                            *)
(***************************************************************************)
\* changed code, for C12: validated, errors and doc are attributes of the
\* validator, one set of them for all callers
SharedFrame(t) == 1

\* the frame that holds the locals of the call of thread t
Frame(t) == t

\* the definitions the shared registries are made of: the one with allowed
\* values of create_translation_validator and those with a custom validator
SharedDefinitions(name) ==
    {d \in ConstructorCalls(name) :
        \/ d.custom_validator # Nothing
        \/ d.allowed_values # Nothing /\ d.error_message # Nothing}

SharedRegistries ==
    {<<a, b>> : a \in SharedDefinitions("type"), b \in SharedDefinitions("text")}

\* the inputs of the concurrent callers, the k-th of three: every call is
\* given a mapping of its own
ConcurrentInputs(k) ==
    CASE k = 1 -> EmptyMap
      [] k = 2 -> ("type" :> PyStr(en)) @@ ("text" :> PyStr(en))
      [] OTHER -> ("type" :> PyInt(0)) @@ ("text" :> PyStr(<<"5">>))
                    @@ (ExtraNames[1] :> PyStr(<<"x">>))

ConcurrentInit ==
    /\ parameters \in SharedRegistries
    /\ input_params = EmptyMap
    /\ outcome = "idle"
    /\ validated = EmptyMap
    /\ errors = <<>>
    /\ chain = 0
    /\ previous_input = EmptyMap
    /\ previous = EmptyMap
    /\ threads = [t \in Threads |-> Idle]
    /\ RelayInit

\* a step of a thread touches nothing but the threads
OnlyThreads ==
    UNCHANGED <<parameters, input_params, outcome, validated, errors,
                chain, previous_input, previous, files, log, response>>

\* thread t calls validate(input): validated = {}, errors = []
BeginValidate(t, input) ==
    /\ threads[t].pc = "idle"
    /\ threads' = [threads EXCEPT ![t].pc = "loop", ![t].call = "validate",
                                  ![t].input = input, ![t].i = 1,
                                  ![Frame(t)].validated = EmptyMap,
                                  ![Frame(t)].errors = <<>>]
    /\ OnlyThreads

\* one turn of the for loop of validate in thread t, r being what
\* _validate_parameter did: an exception other than ValidationError ends
\* the call
LoopTurnWith(t, name, r) ==
    IF Escapes(r)
    THEN threads' = [threads EXCEPT ![t].pc = "done", ![t].result.outcome = r.exc]
    ELSE threads' = [threads EXCEPT
            ![t].i = @ + 1,
            ![Frame(t)].validated = Stored(@, name, r),
            ![Frame(t)].errors = Recorded(@, r)]

LoopTurn(t) ==
    /\ threads[t].pc = "loop"
    /\ threads[t].i <= Len(parameters)
    /\ LoopTurnWith(t, parameters[threads[t].i].name,
                    ValidateParameter(parameters[threads[t].i].name,
                                      Get(threads[t].input, parameters[threads[t].i].name),
                                      parameters[threads[t].i]))
    /\ OnlyThreads

\* the loop is over: the unexpected-parameters check of thread t
CheckUnexpected(t) ==
    /\ threads[t].pc = "loop"
    /\ threads[t].i > Len(parameters)
    /\ \E order \in SetOrders(DOMAIN threads[t].input \ DefinedNames(parameters)) :
          threads' = [threads EXCEPT
              ![t].pc = "end",
              ![Frame(t)].errors = WithUnexpected(parameters, threads[t].input, order, @)]
    /\ OnlyThreads

\* if errors: raise ValidationError; return validated
EndValidate(t) ==
    /\ threads[t].pc = "end"
    /\ threads' = [threads EXCEPT
          ![t].pc = "done",
          ![t].result.outcome =
              IF threads[Frame(t)].errors # <<>> THEN "ValidationError" ELSE "returned",
          ![t].result.validated =
              IF threads[Frame(t)].errors # <<>> THEN EmptyMap
              ELSE threads[Frame(t)].validated,
          ![t].result.errors = threads[Frame(t)].errors]
    /\ OnlyThreads

\* thread t calls generate_documentation(): doc is the header
BeginDocumentation(t) ==
    /\ threads[t].pc = "idle"
    /\ threads' = [threads EXCEPT ![t].pc = "doc", ![t].call = "generate_documentation",
                                  ![t].i = 1, ![Frame(t)].doc = DocHeader]
    /\ OnlyThreads

\* changed code, for C21: the loop runs over reversed(self.parameters.items())
DocTurnBackwards(t) ==
    /\ threads[t].pc = "doc"
    /\ threads[t].i <= Len(parameters)
    /\ threads' = [threads EXCEPT
          ![t].i = @ + 1,
          ![Frame(t)].doc = @ \o DocSection(parameters[Len(parameters) + 1 - threads[t].i])]
    /\ OnlyThreads

\* one turn of the for loop of generate_documentation in thread t
DocTurn(t) ==
    /\ threads[t].pc = "doc"
    /\ threads[t].i <= Len(parameters)
    /\ threads' = [threads EXCEPT
          ![t].i = @ + 1,
          ![Frame(t)].doc = @ \o DocSection(parameters[threads[t].i])]
    /\ OnlyThreads

\* return doc
EndDocumentation(t) ==
    /\ threads[t].pc = "doc"
    /\ threads[t].i > Len(parameters)
    /\ threads' = [threads EXCEPT ![t].pc = "done", ![t].result.outcome = "documented",
                                  ![t].result.doc = threads[Frame(t)].doc]
    /\ OnlyThreads

\* the caller of thread t has taken the result: the frame is gone
Collect(t) ==
    /\ threads[t].pc = "done"
    /\ threads' = [threads EXCEPT ![t] = Idle]
    /\ OnlyThreads

BeginValidateAny ==
    \E t \in Threads : \E k \in 1..3 : BeginValidate(t, ConcurrentInputs(k))
LoopTurnAny == \E t \in Threads : LoopTurn(t)
CheckUnexpectedAny == \E t \in Threads : CheckUnexpected(t)
EndValidateAny == \E t \in Threads : EndValidate(t)
BeginDocumentationAny == \E t \in Threads : BeginDocumentation(t)
DocTurnAny == \E t \in Threads : DocTurn(t)
EndDocumentationAny == \E t \in Threads : EndDocumentation(t)
CollectAny == \E t \in Threads : Collect(t)

ConcurrentNext ==
    \/ BeginValidateAny
    \/ LoopTurnAny
    \/ CheckUnexpectedAny
    \/ EndValidateAny
    \/ BeginDocumentationAny
    \/ DocTurnAny
    \/ EndDocumentationAny
    \/ CollectAny

ConcurrentSpec == ConcurrentInit /\ [][ConcurrentNext]_vars

(***************************************************************************)
(* Definitions with several constraints each.  Registration is over: the   *)
(* registry holds two definitions of LayeredDefinitions, and validate is   *)
(* called on it with the inputs of Inputs and ExtraInputs.                 *)
(***************************************************************************)
LayeredDefinitions(name) ==
    LET d(param_type) == ParameterDefinition(name, param_type, "Description", TRUE, PyNone)
    IN  { \* an integer with allowed values, a lower bound and a custom validator
          [d("integer") EXCEPT
              !.allowed_values = Some(<<PyInt(0), PyInt(5)>>),
              !.min_value = Some(PyInt(1)),
              !.custom_validator = Some("is_even"),
              !.error_message = Some("Number must be even")],
          \* a string with allowed values, length bounds, a pattern and a
          \* custom validator that raises on a str
          [d("string") EXCEPT
              !.allowed_values = Some(<<PyStr(en), PyStr(<<"5">>),
                                        PyStr(<<"Y", "e", "s">>), PyStr(<<"N", "O">>)>>),
              !.min_length = Some(2), !.max_length = Some(2),
              !.pattern = Some("^[a-z]{2}$"),
              !.custom_validator = Some("is_even")],
          \* a float with a range, a length bound and a custom validator
          [d("float") EXCEPT
              !.min_value = Some(PyFloat(0)), !.max_value = Some(PyFloat(10)),
              !.max_length = Some(2),
              !.custom_validator = Some("is_even")] }

LayeredRegistries ==
    {<<a, b>> : a \in LayeredDefinitions("type"), b \in LayeredDefinitions("text")}

LayeredInit ==
    /\ parameters \in LayeredRegistries
    /\ input_params = EmptyMap
    /\ outcome = "idle"
    /\ validated = EmptyMap
    /\ errors = <<>>
    /\ chain = 0
    /\ previous_input = EmptyMap
    /\ previous = EmptyMap
    /\ threads = [t \in Threads |-> Idle]
    /\ RelayInit

LayeredNext ==
    \/ ValidateAny
    \/ Finish

LayeredSpec == LayeredInit /\ [][LayeredNext]_vars

(***************************************************************************)
(* The relay serves requests one at a time: the handlers are coroutines    *)
(* without an await, so each runs from its first line to its answer        *)
(* before the event loop starts the next.                                  *)
(***************************************************************************)
\* a step of the relay touches nothing of the validator
OnlyRelay ==
    UNCHANGED <<parameters, input_params, outcome, validated, errors,
                chain, previous_input, previous, threads>>

\* the requests served so far: each handler logs the request first
Served ==
    Cardinality({k \in 1..Len(log) :
        log[k].event \in {"frontend_received", "translation_output_received",
                          "backend_output_received"}})

\* the handler ends with the disk as given and the answer
Answers(disk, answer) ==
    /\ files' = disk.files
    /\ log' = disk.log
    /\ response' = answer

\* cleanup_all() followed by raise HTTPException(status, detail)
Fails(entries, handler, status, detail) ==
    Answers(CleanupAll([files |-> files, log |-> entries]),
            HTTPException(handler, status, detail))

\* POST /frontend_to_translation
frontend_to_translation(data) ==
    /\ Served < MaxRequests
    /\ LET received == LogEvent(log, "frontend_received", data)
       IN  IF Strip(data.original_language) = <<>>
           THEN Fails(received, "frontend_to_translation", 400,
                      <<"Original language cannot be empty">>)
           ELSE IF Strip(data.requested_language) = <<>>
           THEN Fails(received, "frontend_to_translation", 400,
                      <<"Requested language cannot be empty">>)
           ELSE IF Strip(data.original_medication) = <<>>
           THEN Fails(received, "frontend_to_translation", 400,
                      <<"Original medication cannot be empty">>)
           ELSE Answers([files |-> WriteJson(files, TRANSLATION_INPUT, data),
                         log |-> LogEvent(received, "translation_input_written", data)],
                        Ok("frontend_to_translation", "Forwarded to translation team"))
    /\ OnlyRelay

\* backend_input of translation_to_backend, original being the content of
\* the frontend input file
BackendInput(data, original) ==
    [translated_medication |-> Strip(data.translated_medication),
     requested_language |-> original.requested_language,
     original_medication |-> original.original_medication]

\* POST /translation_to_backend
translation_to_backend(data) ==
    /\ Served < MaxRequests
    /\ LET received == LogEvent(log, "translation_output_received", data)
       IN  IF data.supported = FALSE
           THEN Fails(received, "translation_to_backend", 400,
                      <<"Translation error: ",
                        IF data.message = Nothing THEN "None" ELSE data.message[1]>>)
           ELSE IF Strip(data.translated_medication) = <<>>
           THEN Fails(received, "translation_to_backend", 500,
                      <<"No translated medication returned">>)
           ELSE IF files[TRANSLATION_INPUT] = Nothing
           THEN Fails(received, "translation_to_backend", 500,
                      <<"Missing original frontend JSON">>)
           ELSE Answers(
                    [files |-> WriteJson(files, BACKEND_INPUT,
                                         BackendInput(data, files[TRANSLATION_INPUT][1])),
                     log |-> LogEvent(received, "backend_input_written",
                                      BackendInput(data, files[TRANSLATION_INPUT][1]))],
                    Ok("translation_to_backend", "Forwarded to backend team"))
    /\ OnlyRelay

\* final_output of backend_to_frontend; m.get(key) is None for a key the
\* match does not have
FinalOutput(data, original, backend_in) ==
    [original_language |-> original.original_language,
     requested_language |-> original.requested_language,
     original_medication |-> original.original_medication,
     translated_medication |-> backend_in.translated_medication,
     medication_matches |->
         [k \in 1..Len(data.matches) |->
             [generic |-> data.matches[k].generic, brand |-> data.matches[k].brand]]]

\* POST /backend_to_frontend.  data.matches is a list always, the request
\* model admitting nothing else, so the test for it never fails; m.get
\* raises AttributeError on a match that is not a dict, before
\* final_output_sent is logged and before the last cleanup_all()
backend_to_frontend(data) ==
    /\ Served < MaxRequests
    /\ LET received == LogEvent(log, "backend_output_received", data)
       IN  IF ~data.success
           THEN Fails(received, "backend_to_frontend", 404,
                      <<"No matching medications found">>)
           ELSE IF files[TRANSLATION_INPUT] = Nothing
           THEN Fails(received, "backend_to_frontend", 500,
                      <<"Lost original frontend input">>)
           ELSE IF files[BACKEND_INPUT] = Nothing
           THEN Fails(received, "backend_to_frontend", 500, <<"Lost backend input">>)
           ELSE IF \E k \in 1..Len(data.matches) : data.matches[k].t # "dict"
           THEN Answers([files |-> files, log |-> received],
                        InternalServerError("backend_to_frontend", "AttributeError"))
           ELSE Answers(
                    CleanupAll(
                        [files |-> files,
                         log |-> LogEvent(received, "final_output_sent",
                                          FinalOutput(data, files[TRANSLATION_INPUT][1],
                                                      files[BACKEND_INPUT][1]))]),
                    [handler |-> "backend_to_frontend", status |-> 200,
                     body |-> FinalOutput(data, files[TRANSLATION_INPUT][1],
                                          files[BACKEND_INPUT][1])])
    /\ OnlyRelay

FrontendToTranslationAny == \E data \in FrontendInputs : frontend_to_translation(data)
TranslationToBackendAny == \E data \in TranslationInputs : translation_to_backend(data)
BackendToFrontendAny == \E data \in BackendInputModels : backend_to_frontend(data)

RelayNext ==
    \/ FrontendToTranslationAny
    \/ TranslationToBackendAny
    \/ BackendToFrontendAny

RelaySpec == Init /\ [][RelayNext]_vars

(***************************************************************************)
(* What the properties speak about, read off the state a validate call     *)
(* has left.                                                               *)
(***************************************************************************)
\* a validate call has ended and its outcome is in the state
Called == outcome \in {"returned", "ValidationError", "TypeError"}

Indices == 1..Len(parameters)

\* what _validate_parameter does with definition i on the input of the call
ParamResult(i) ==
    ValidateParameter(parameters[i].name, Get(input_params, parameters[i].name),
                      parameters[i])

\* the definitions the input violates, and the message of each
Violated == {i \in Indices : ParamResult(i).exc = "ValidationError"}
MessageOf(i) == ParamResult(i).msg

\* the input keys without a definition, and the messages that may name them
Unknown == DOMAIN input_params \ DefinedNames(parameters)
UnexpectedMessages == {UnexpectedMessage(order) : order \in SetOrders(Unknown)}

\* how often a message occurs among the raised ones
Occurrences(message) == Cardinality({k \in 1..Len(errors) : errors[k] = message})

\* definition i is required and its key is not in the input
MissingRequired(i) ==
    parameters[i].required /\ parameters[i].name \notin DOMAIN input_params

\* definition i is optional and its key is not in the input
AbsentOptional(i) ==
    ~parameters[i].required /\ parameters[i].name \notin DOMAIN input_params

\* the parameter's own coercion and constraints take its default as it is
DefaultAccepted(i) ==
    ValidateParameter(parameters[i].name, parameters[i].default, parameters[i])
        = Returns(parameters[i].default)

NoCustomValidators == \A i \in Indices : parameters[i].custom_validator = Nothing

(***************************************************************************)
(* C1.  validate aggregates: when it raises ValidationError, the messages  *)
(* are exactly one per violated definition (missing required, coercion     *)
(* failure or first failing constraint) plus one when the input has        *)
(* unknown keys; an earlier violation never hides a later one.             *)
(***************************************************************************)
C1_ErrorsAggregated ==
    outcome = "ValidationError" =>
        /\ Len(errors) = Cardinality(Violated) + (IF Unknown # {} THEN 1 ELSE 0)
        /\ \A i \in Violated : \E k \in 1..Len(errors) : errors[k] = MessageOf(i)
        /\ \A k \in 1..Len(errors) :
              Occurrences(errors[k]) =
                  Cardinality({i \in Violated : MessageOf(i) = errors[k]})
                    + (IF Unknown # {} /\ errors[k] \in UnexpectedMessages THEN 1 ELSE 0)

\* both definitions are violated, the first by a missing key and the second
\* by a present value, and the input has an unknown key: three messages
C1_Witness ==
    /\ outcome = "ValidationError"
    /\ Len(parameters) = 2
    /\ Violated = {1, 2}
    /\ MissingRequired(1) /\ ~MissingRequired(2)
    /\ Unknown # {}
    /\ Len(errors) = 3

(***************************************************************************)
(* C2.  Every required definition whose key is not in the input makes      *)
(* validate raise ValidationError with a message for it, one entry per     *)
(* missing required parameter.  (Stated for registries without custom      *)
(* validators, whose exceptions are meant to escape.)                      *)
(***************************************************************************)
C2_MissingRequiredReported ==
    (Called /\ NoCustomValidators) =>
        \A i \in Indices :
            MissingRequired(i) =>
                /\ outcome = "ValidationError"
                /\ Occurrences(MissingMessage(parameters[i].name, parameters[i]))
                      = Cardinality({j \in Violated : MessageOf(j) = MessageOf(i)})
                /\ Occurrences(MissingMessage(parameters[i].name, parameters[i])) >= 1

(***************************************************************************)
(* C3.  An optional definition whose key is not in the input gets its      *)
(* default, unchanged, in the returned mapping: the default is not         *)
(* coerced, and it is not rejected - when nothing else is wrong validate   *)
(* returns - even if the parameter's own checks would refuse it.           *)
(***************************************************************************)
C3_DefaultUnchanged ==
    /\ outcome = "returned" =>
          \A i \in Indices :
              AbsentOptional(i) => validated[parameters[i].name] = parameters[i].default
    /\ ( /\ Called
         /\ Unknown = {}
         /\ \A i \in Indices : ~AbsentOptional(i) => ParamResult(i).exc = "none" )
          => outcome = "returned"

\* validate returned a default that the definition would not accept as an
\* input value
C3_Witness ==
    /\ outcome = "returned"
    /\ \E i \in Indices :
          /\ AbsentOptional(i)
          /\ ~DefaultAccepted(i)
          /\ validated[parameters[i].name] = parameters[i].default

(***************************************************************************)
(* C4.  The keys of a returned mapping are exactly the names registered.   *)
(***************************************************************************)
C4_KeysAreDefinedNames ==
    outcome = "returned" => DOMAIN validated = DefinedNames(parameters)

\* a returned mapping with one entry from the input and one from a default
C4_Witness ==
    /\ outcome = "returned"
    /\ Len(parameters) = 2
    /\ \E i, j \in Indices :
          /\ AbsentOptional(i)
          /\ parameters[j].name \in DOMAIN input_params
          /\ DOMAIN validated = {parameters[i].name, parameters[j].name}

(***************************************************************************)
(* C5.  An input with a key that has no definition makes validate raise    *)
(* ValidationError with exactly one unexpected-parameters message, naming  *)
(* exactly the unknown keys, also when every defined parameter is valid.   *)
(* (Stated for registries without custom validators.)                      *)
(***************************************************************************)
C5_UnknownKeysReported ==
    (Called /\ NoCustomValidators /\ Unknown # {}) =>
        /\ outcome = "ValidationError"
        /\ Cardinality({k \in 1..Len(errors) : errors[k] \in UnexpectedMessages}) = 1
        /\ \A k \in 1..Len(errors) :
              errors[k][1] = "Unexpected parameters: " =>
                  {errors[k][j] : j \in 2..Len(errors[k])} \ {", "} = Unknown

FilledFromDefault(i) ==
    ~parameters[i].required /\ Get(previous_input, parameters[i].name) = PyNone

C7_DiscoveryOrder ==
    outcome = "ValidationError" =>
        /\ \A i \in Violated :
              LET rank == Cardinality({j \in Violated : j <= i})
              IN  rank <= Len(errors) /\ errors[rank] = MessageOf(i)
        /\ Unknown # {} =>
              /\ errors # <<>>
              /\ errors[Len(errors)] \in UnexpectedMessages
              /\ \A k \in 1..(Len(errors) - 1) : errors[k] \notin UnexpectedMessages

\* two violated definitions with different messages and an unknown key
C7_Witness ==
    /\ outcome = "ValidationError"
    /\ Violated = {1, 2}
    /\ MessageOf(1) # MessageOf(2)
    /\ Unknown # {}
    /\ errors = <<MessageOf(1), MessageOf(2), errors[3]>>

(***************************************************************************)
(* C8.  validate returns a mapping exactly when no definition is violated  *)
(* and no key is unknown; otherwise it raises ValidationError and returns  *)
(* nothing.  (Stated for registries without custom validators.)            *)
(***************************************************************************)
C8_MappingIffNoViolation ==
    (Called /\ NoCustomValidators) =>
        /\ (outcome = "returned") <=> (Violated = {} /\ Unknown = {})
        /\ (Violated # {} \/ Unknown # {}) =>
              (outcome = "ValidationError" /\ validated = EmptyMap)

(***************************************************************************)
(* C9.  A constructor call for an optional parameter without a default     *)
(* fails (ValueError, the configuration error of the code) and registers   *)
(* nothing; so every optional definition of the registry has a default     *)
(* that is not None.                                                       *)
(***************************************************************************)
OptionalHasDefault ==
    \A i \in Indices : ~parameters[i].required => parameters[i].default # PyNone

C9_OptionalHasDefault ==
    [][ /\ OptionalHasDefault'
        /\ outcome' = "ValueError" => parameters' = parameters ]_vars

\* the constructor has just failed, in a registry holding an optional
\* definition
C9_Witness ==
    /\ outcome = "ValueError"
    /\ \E i \in Indices : ~parameters[i].required

(***************************************************************************)
(* C10.  With no custom validator in the registry, validate ends by        *)
(* returning a mapping or by raising ValidationError, nothing else - also  *)
(* when min_value or max_value is declared on a parameter that is not an   *)
(* integer or a float.                                                     *)
(***************************************************************************)
C10_OnlyTwoOutcomes ==
    (Called /\ NoCustomValidators) => outcome \in {"returned", "ValidationError"}

(***************************************************************************)
(* What a present value meets on its way through _validate_parameter.      *)
(***************************************************************************)
\* the raw value the input gives for definition i (None when it has none)
RawValue(i) == Get(input_params, parameters[i].name)

\* the key of definition i is in the input with a value that is not null
Present(i) == RawValue(i) # PyNone

\* what _validate_type does with the raw value of definition i
Coerced(i) == ValidateType(parameters[i].name, RawValue(i), parameters[i])

\* what _validate_parameter does for definition i up to, and without, the
\* call of its custom validator
BeforeCustom(i) ==
    ValidateParameter(parameters[i].name, RawValue(i),
                      [parameters[i] EXCEPT !.custom_validator = Nothing])

\* the custom validator of definition i is called, and what the call yields
CustomCalled(i) ==
    /\ Present(i)
    /\ parameters[i].custom_validator # Nothing
    /\ BeforeCustom(i).exc = "none"
CustomCall(i) == CallCustom(parameters[i].custom_validator[1], BeforeCustom(i).value)

\* the custom validator of definition i is called and throws, and validate
\* gets as far as definition i
CustomThrows(i) ==
    /\ CustomCalled(i)
    /\ CustomCall(i).exc # "none"
    /\ \A j \in 1..(i - 1) : ~Escapes(ParamResult(j))

(***************************************************************************)
(* C11.  When the custom validator of a definition throws, validate ends   *)
(* with that exception, which is not ValidationError: the exception is     *)
(* not recorded as a violation and no mapping is returned.                 *)
(***************************************************************************)
C11_CustomExceptionEscapes ==
    Called =>
        \A i \in Indices :
            CustomThrows(i) =>
                /\ outcome = CustomCall(i).exc
                /\ outcome \notin {"returned", "ValidationError"}
                /\ validated = EmptyMap
                /\ errors = <<>>

\* the custom validator of the second definition threw after the first
\* definition had been found violated
C11_Witness ==
    /\ outcome = "TypeError"
    /\ Len(parameters) = 2
    /\ CustomThrows(2)
    /\ 1 \in Violated

(***************************************************************************)
(* C13.  Registration order does not change the outcome: a registry with   *)
(* the same definitions in another order, given the same input (and the    *)
(* same iteration order of its unknown keys), returns an equal mapping     *)
(* when this one returns, and raises ValidationError with the same set of  *)
(* messages otherwise.  (Stated for registries without custom validators.) *)
(***************************************************************************)
\* the registries that hold the definitions of params in some order
Reorderings(params) ==
    {[k \in 1..Len(params) |-> params[p[k]]] : p \in SetOrders(1..Len(params))}

\* the messages of a ValidationError, as a set
MessageSet(messages) == {messages[k] : k \in 1..Len(messages)}

\* the call of the other registry ends as the call in the state did
SameOutcome(call) ==
    \/ /\ outcome = "returned"
       /\ call.outcome = "returned"
       /\ call.validated = validated
    \/ /\ outcome = "ValidationError"
       /\ call.outcome = "ValidationError"
       /\ MessageSet(call.errors) = MessageSet(errors)

C13_OrderIrrelevant ==
    (Called /\ NoCustomValidators) =>
        \A other \in Reorderings(parameters) :
            \E order \in SetOrders(Unknown) :
                SameOutcome(ValidateCall(other, input_params, order))

(***************************************************************************)
(* C14.  Boolean coercion.  For a boolean parameter with a present value:  *)
(* a bool is taken as it is; a str that is true, 1 or yes in any case      *)
(* gives True, one that is false, 0 or no gives False; any other value     *)
(* (another str, a number, 0 and 1 included, a list, a dict) is rejected   *)
(* with the message "... must be a boolean ...".                           *)
(***************************************************************************)
TrueWords == {<<"t", "r", "u", "e">>, <<"1">>, <<"y", "e", "s">>}
FalseWords == {<<"f", "a", "l", "s", "e">>, <<"0">>, <<"n", "o">>}

SaysTrue(v) == v.t = "str" /\ Lower(v.s) \in TrueWords
SaysFalse(v) == v.t = "str" /\ Lower(v.s) \in FalseWords

\* the message is that of a failed coercion to the named type
MustBe(message, what) ==
    Len(message) >= 4 /\ message[3] = "' must be " /\ message[4] = what

\* definition i is of the given type and has a present value
PresentOfType(i, param_type) == parameters[i].param_type = param_type /\ Present(i)

\* the coercion of definition i failed, and validate reports it
CoercionRejected(i, what) ==
    /\ Coerced(i).exc = "ValidationError"
    /\ MustBe(Coerced(i).msg, what)
    /\ outcome # "returned"
    /\ outcome = "ValidationError" => Coerced(i).msg \in MessageSet(errors)

\* the coercion of definition i gave the value, and validate returns it
\* when it returns
CoercedTo(i, value) ==
    /\ Coerced(i) = Returns(value)
    /\ outcome = "returned" => validated[parameters[i].name] = value

C14_BooleanCoercion ==
    Called =>
        \A i \in Indices :
            PresentOfType(i, "boolean") =>
                CASE RawValue(i).t = "bool" -> CoercedTo(i, RawValue(i))
                  [] SaysTrue(RawValue(i)) -> CoercedTo(i, PyBool(TRUE))
                  [] SaysFalse(RawValue(i)) -> CoercedTo(i, PyBool(FALSE))
                  [] OTHER -> CoercionRejected(i, "a boolean")

\* two boolean parameters, given "Yes" and "NO": True and False are returned
C14_Witness ==
    /\ outcome = "returned"
    /\ Len(parameters) = 2
    /\ PresentOfType(1, "boolean") /\ PresentOfType(2, "boolean")
    /\ RawValue(1) = PyStr(<<"Y", "e", "s">>) /\ RawValue(2) = PyStr(<<"N", "O">>)
    /\ validated[parameters[1].name] = PyBool(TRUE)
    /\ validated[parameters[2].name] = PyBool(FALSE)

(***************************************************************************)
(* C15.  Coercion is total for a string parameter: every present value     *)
(* becomes its text and no violation is recorded.  It is partial for an    *)
(* integer or a float parameter: a number and the text of a decimal        *)
(* numeral become the number, a text of letters that is no numeral is      *)
(* rejected with "... must be an integer ..." / "... must be a float ...". *)
(***************************************************************************)
\* the numbers whose numerals are looked for among the raw texts
Numerals == 0..MaxNum

\* str(value) as a value
TextOf(v) == IF v.t = "str" THEN v ELSE PyStr(StrOf(v))

\* a text made of letters only
Letters(chars) ==
    chars # <<>> /\ \A k \in 1..Len(chars) : chars[k] \in LowerSet \cup UpperSet

\* the texts of letters that float() takes: nan, inf and infinity in any case
SpecialFloats == {<<"n", "a", "n">>, <<"i", "n", "f">>,
                  <<"i", "n", "f", "i", "n", "i", "t", "y">>}

\* the whole part of a number, as int(value) gives it
Whole(v) == IF v.t = "float" THEN PyInt(Trunc(v.n)) ELSE PyInt(v.n)

\* a number as a float
AsFloat(v) == IF v.t = "float" THEN v ELSE PyFloat(10 * v.n)

StringIsTotal(i) == CoercedTo(i, TextOf(RawValue(i)))

IntegerIsPartial(i) ==
    /\ (IsNumber(RawValue(i)) /\ ~IsNaN(RawValue(i))) => CoercedTo(i, Whole(RawValue(i)))
    /\ \A k \in Numerals :
          RawValue(i) = PyStr(IntChars(k)) => CoercedTo(i, PyInt(k))
    /\ (RawValue(i).t = "str" /\ Letters(RawValue(i).s))
          => CoercionRejected(i, "an integer")

FloatIsPartial(i) ==
    /\ IsNumber(RawValue(i)) => CoercedTo(i, AsFloat(RawValue(i)))
    /\ \A k \in Numerals :
          /\ RawValue(i) = PyStr(IntChars(k)) => CoercedTo(i, PyFloat(10 * k))
          /\ RawValue(i) = PyStr(FloatChars(k)) => CoercedTo(i, PyFloat(k))
    /\ ( /\ RawValue(i).t = "str"
         /\ Letters(RawValue(i).s)
         /\ Lower(RawValue(i).s) \notin SpecialFloats )
          => CoercionRejected(i, "a float")

C15_CoercionTotalOrPartial ==
    Called =>
        \A i \in Indices :
            /\ PresentOfType(i, "string") => StringIsTotal(i)
            /\ PresentOfType(i, "integer") => IntegerIsPartial(i)
            /\ PresentOfType(i, "float") => FloatIsPartial(i)

\* a string parameter given a number and an integer parameter given the
\* text "5": validate returns the text of the number and the number 5
C15_Witness ==
    /\ outcome = "returned"
    /\ Len(parameters) = 2
    /\ PresentOfType(1, "string") /\ IsNumber(RawValue(1))
    /\ validated[parameters[1].name] = PyStr(StrOf(RawValue(1)))
    /\ PresentOfType(2, "integer") /\ RawValue(2) = PyStr(<<"5">>)
    /\ validated[parameters[2].name] = PyInt(5)

(***************************************************************************)
(* C16.  Allowed values.  When a definition declares allowed_values, a     *)
(* present value that coerces passes this check exactly when the coerced   *)
(* value - not the raw one - is among them; otherwise the violation        *)
(* "... must be one of ..., got '<coerced value>'" is recorded for it.     *)
(***************************************************************************)
\* the sequence ends with the given pieces
EndsWith(message, pieces) ==
    /\ Len(message) >= Len(pieces)
    /\ SubSeq(message, Len(message) - Len(pieces) + 1, Len(message)) = pieces

\* the third piece of a generated message tells the check that failed
FailedCheck(message, piece) == Len(message) >= 3 /\ message[3] = piece

\* definition i has a present value that coerces (to Coerced(i).value)
Coerces(i) == Present(i) /\ Coerced(i).exc = "none"

\* the value is equal to one of the allowed values of definition i
Member(value, i) ==
    \E k \in 1..Len(parameters[i].allowed_values[1]) :
        PyEq(value, parameters[i].allowed_values[1][k])

\* _validate_parameter raised the violation for definition i and validate
\* reports it
ViolationReported(i) ==
    /\ ParamResult(i).exc = "ValidationError"
    /\ outcome # "returned"
    /\ outcome = "ValidationError" => MessageOf(i) \in MessageSet(errors)

C16_AllowedValuesOnCoerced ==
    Called =>
        \A i \in Indices :
            (parameters[i].allowed_values # Nothing /\ Coerces(i)) =>
                IF Member(Coerced(i).value, i)
                THEN ~FailedCheck(MessageOf(i), "' must be one of ")
                ELSE /\ ViolationReported(i)
                     /\ FailedCheck(MessageOf(i), "' must be one of ")
                     /\ EndsWith(MessageOf(i),
                                 <<", got '">> \o StrOf(Coerced(i).value) \o <<"'">>)

\* an integer parameter with allowed values [5] given the text "5", which
\* is not among them while the coerced 5 is: validate returns 5
C16_Witness ==
    /\ outcome = "returned"
    /\ \E i \in Indices :
          /\ parameters[i].allowed_values # Nothing
          /\ RawValue(i).t = "str"
          /\ ~Member(RawValue(i), i)
          /\ Member(Coerced(i).value, i)
          /\ validated[parameters[i].name] = Coerced(i).value

(***************************************************************************)
(* C17.  Numeric range.  For an integer or float parameter with min_value  *)
(* and/or max_value, a present coerced value v passes the range check      *)
(* exactly when min <= v and v <= max; v below min is reported with        *)
(* "... must be >= ...", v above max with "... must be <= ...".            *)
(***************************************************************************)
\* a <= b between numbers; nan is in no order with anything
Leq(a, b) == ~IsNaN(a) /\ ~IsNaN(b) /\ Tenths(a) <= Tenths(b)

\* the value is within the bounds definition i declares
InRange(v, i) ==
    /\ parameters[i].min_value # Nothing => Leq(parameters[i].min_value[1], v)
    /\ parameters[i].max_value # Nothing => Leq(v, parameters[i].max_value[1])

BelowMin(v, i) ==
    /\ parameters[i].min_value # Nothing
    /\ ~IsNaN(v) /\ Tenths(v) < Tenths(parameters[i].min_value[1])

AboveMax(v, i) ==
    /\ parameters[i].max_value # Nothing
    /\ ~IsNaN(v) /\ Tenths(v) > Tenths(parameters[i].max_value[1])

\* the violation recorded for definition i is that of the given bound
RangeFailure(i, op) ==
    /\ ParamResult(i).exc = "ValidationError"
    /\ FailedCheck(MessageOf(i), "' must be ")
    /\ MessageOf(i)[4] = op

\* definition i is numeric, declares a bound, and its present value reaches
\* the range check
RangeChecked(i) ==
    /\ parameters[i].param_type \in {"integer", "float"}
    /\ parameters[i].min_value # Nothing \/ parameters[i].max_value # Nothing
    /\ Coerces(i)
    /\ parameters[i].allowed_values # Nothing => Member(Coerced(i).value, i)

C17_RangeInclusive ==
    Called =>
        \A i \in Indices :
            RangeChecked(i) =>
                /\ InRange(Coerced(i).value, i)
                      <=> ~(RangeFailure(i, ">=") \/ RangeFailure(i, "<="))
                /\ BelowMin(Coerced(i).value, i)
                      => (RangeFailure(i, ">=") /\ ViolationReported(i))
                /\ (AboveMax(Coerced(i).value, i) /\ ~BelowMin(Coerced(i).value, i))
                      => (RangeFailure(i, "<=") /\ ViolationReported(i))

(***************************************************************************)
(* C18.  Length.  When min_length and/or max_length are declared, the      *)
(* check is on the length of str() of the coerced value, whatever the      *)
(* parameter type: the value passes exactly when min_length <= length <=   *)
(* max_length, a shorter one is reported with "... must have length >=     *)
(* ...", a longer one with "... must have length <= ...".                  *)
(***************************************************************************)
\* definition i without the checks from the named one on
UpToRange(i) ==
    [parameters[i] EXCEPT !.min_length = Nothing, !.max_length = Nothing,
                          !.pattern = Nothing, !.custom_validator = Nothing]
UpToLength(i) ==
    [parameters[i] EXCEPT !.pattern = Nothing, !.custom_validator = Nothing]

\* the present value of definition i coerces and passes the checks before
\* its length check
LengthChecked(i) ==
    /\ parameters[i].min_length # Nothing \/ parameters[i].max_length # Nothing
    /\ Present(i)
    /\ ValidateParameter(parameters[i].name, RawValue(i), UpToRange(i)).exc = "none"

\* the length of the text of the coerced value
TextLength(i) == Len(StrOf(Coerced(i).value))

TooShort(i) ==
    parameters[i].min_length # Nothing /\ TextLength(i) < parameters[i].min_length[1]
TooLong(i) ==
    parameters[i].max_length # Nothing /\ TextLength(i) > parameters[i].max_length[1]

\* the violation recorded for definition i is that of the given length bound
LengthFailure(i, op) ==
    /\ ParamResult(i).exc = "ValidationError"
    /\ FailedCheck(MessageOf(i), "' must have length ")
    /\ MessageOf(i)[4] = op

C18_LengthOfText ==
    Called =>
        \A i \in Indices :
            LengthChecked(i) =>
                /\ (~TooShort(i) /\ ~TooLong(i))
                      <=> ~(LengthFailure(i, ">=") \/ LengthFailure(i, "<="))
                /\ TooShort(i) => (LengthFailure(i, ">=") /\ ViolationReported(i))
                /\ (TooLong(i) /\ ~TooShort(i))
                      => (LengthFailure(i, "<=") /\ ViolationReported(i))

\* a boolean parameter with max_length 4 given "NO": the text of the
\* coerced False has five characters and the violation is raised
C18_Witness ==
    /\ outcome = "ValidationError"
    /\ \E i \in Indices :
          /\ PresentOfType(i, "boolean")
          /\ LengthChecked(i)
          /\ Len(StrOf(RawValue(i))) <= parameters[i].max_length[1]
          /\ TooLong(i)
          /\ errors = <<LengthMessage(parameters[i].name, "<=", parameters[i].max_length[1])>>

(***************************************************************************)
(* C19.  Pattern.  When a pattern is declared and the coerced value is a   *)
(* str, the value must match the pattern from its start, otherwise         *)
(* "... does not match required pattern ..." is recorded; when the         *)
(* coerced value is not a str the pattern is skipped and never causes a    *)
(* violation.                                                              *)
(***************************************************************************)
\* the present value of definition i coerces and passes the checks before
\* its pattern check
PatternChecked(i) ==
    /\ Truthy(parameters[i].pattern)
    /\ Present(i)
    /\ ValidateParameter(parameters[i].name, RawValue(i), UpToLength(i)).exc = "none"

\* the text begins with two lower-case letters
StartsWithTwoLower(chars) ==
    Len(chars) >= 2 /\ chars[1] \in LowerSet /\ chars[2] \in LowerSet

\* the text matches the pattern from its start: both patterns of the model
\* ask for two lower-case letters there, the anchored one for the end of the
\* text (or its final newline) right after them
MatchesFromStart(pattern, chars) ==
    /\ StartsWithTwoLower(chars)
    /\ pattern = "^[a-z]{2}$" => (Len(chars) = 2 \/ SubSeq(chars, 3, Len(chars)) = <<"\n">>)

\* the violation recorded for definition i is that of its pattern
PatternFailure(i) ==
    /\ ParamResult(i).exc = "ValidationError"
    /\ FailedCheck(MessageOf(i), "' does not match required pattern: ")

C19_PatternOnStrings ==
    Called =>
        \A i \in Indices :
            /\ PatternChecked(i) =>
                  IF Coerced(i).value.t = "str"
                  THEN IF MatchesFromStart(parameters[i].pattern[1], Coerced(i).value.s)
                       THEN ~PatternFailure(i)
                       ELSE PatternFailure(i) /\ ViolationReported(i)
                  ELSE ~PatternFailure(i)
            /\ (Coerces(i) /\ Coerced(i).value.t # "str") => ~PatternFailure(i)

\* a string parameter whose pattern, without anchors, is met inside "Yes"
\* but not at its start, and an integer parameter with a pattern: only the
\* first is reported
C19_Witness ==
    /\ outcome = "ValidationError"
    /\ Len(parameters) = 2
    /\ PatternChecked(1) /\ PatternChecked(2)
    /\ RawValue(1) = PyStr(<<"Y", "e", "s">>)
    /\ Coerced(2).value.t = "int"
    /\ errors = <<PatternMessage(parameters[1].name, parameters[1])>>

(***************************************************************************)
(* C20.  The error_message of a definition replaces the generated message  *)
(* for its missing-required and its failed-custom-validator violations     *)
(* only: a coercion, allowed-values, range, length or pattern violation    *)
(* carries the generated message also when error_message is set.           *)
(***************************************************************************)
\* the message a violation of definition i carries when error_message is used
Override(i) == <<parameters[i].error_message[1]>>

\* a message the code generates for definition i begins with its name
Generated(i, message) ==
    Len(message) >= 3 /\ message[1] = "Parameter '" /\ message[2] = parameters[i].name

\* the custom validator of definition i was called and returned false
CustomFailed(i) == CustomCalled(i) /\ CustomCall(i).exc = "none" /\ ~CustomCall(i).truth

C20_OverrideOnlyMissingAndCustom ==
    Called =>
        \A i \in Violated :
            Truthy(parameters[i].error_message) =>
                /\ outcome = "ValidationError" => MessageOf(i) \in MessageSet(errors)
                /\ IF ~Present(i) \/ CustomFailed(i)
                   THEN MessageOf(i) = Override(i)
                   ELSE MessageOf(i) # Override(i) /\ Generated(i, MessageOf(i))

\* two definitions with an error_message, the first missing and the second
\* failing a check on its value that is not the custom validator: the
\* override, then a generated message
C20_Witness ==
    /\ outcome = "ValidationError"
    /\ Len(parameters) = 2
    /\ Truthy(parameters[1].error_message) /\ Truthy(parameters[2].error_message)
    /\ ~Present(1)
    /\ Present(2) /\ ~CustomFailed(2)
    /\ errors = <<Override(1), MessageOf(2)>>
    /\ Generated(2, MessageOf(2))

(***************************************************************************)
(* C12.  Once registration is over, however the steps of concurrent        *)
(* validate and generate_documentation calls on one registry interleave:   *)
(* the registry stays as it is, the input of a call in progress stays as   *)
(* it is, and every call ends with the outcome it has when run alone       *)
(* (the mapping, the messages of the ValidationError, the exception, or    *)
(* the documentation text).                                                *)
(***************************************************************************)
\* the outcomes validate(input) can have when run alone
AloneValidate(input) ==
    {ValidateCall(parameters, input, order) :
        order \in SetOrders(DOMAIN input \ DefinedNames(parameters))}

\* the result of thread t, as validate reports an outcome
ValidateResult(t) ==
    [outcome |-> threads[t].result.outcome, validated |-> threads[t].result.validated,
     errors |-> threads[t].result.errors]

\* a call of thread t that has ended has the outcome of the call run alone
AsAlone(t) ==
    threads[t].pc = "done" =>
        IF threads[t].call = "validate"
        THEN ValidateResult(t) \in AloneValidate(threads[t].input)
        ELSE /\ threads[t].result.outcome = "documented"
             /\ threads[t].result.doc = GenerateDocumentation(parameters)

\* the input of a call of thread t that goes on is the one it was given
InputKept(t) ==
    (threads[t].pc # "idle" /\ threads'[t].pc # "idle")
        => threads'[t].input = threads[t].input

C12_ConcurrentCallsIsolated ==
    [][ /\ parameters' = parameters
        /\ \A t \in Threads : InputKept(t)
        /\ \A t \in Threads : AsAlone(t)' ]_vars

\* a validate call that found both definitions violated and an unknown key
\* and a generate_documentation call have ended side by side
C12_Witness ==
    /\ threads[1].pc = "done" /\ threads[1].call = "validate"
    /\ threads[1].result.outcome = "ValidationError"
    /\ Len(threads[1].result.errors) = 3
    /\ threads[2].pc = "done" /\ threads[2].call = "generate_documentation"

(***************************************************************************)
(* C21.  generate_documentation emits exactly one section per registered   *)
(* definition, in registration order: the text has as many section         *)
(* headings and as many section rules as the registry has definitions, the *)
(* k-th heading carries the name of the k-th definition registered and     *)
(* k - 1 rules come before it.  The text is a function of the registry     *)
(* alone: a call that ends returns the text every call that ended before   *)
(* it returned, whatever validate calls ran in between, and the registry   *)
(* stays as it is.                                                         *)
(***************************************************************************)
\* thread t holds the text a generate_documentation call returned
Documented(t) ==
    threads[t].pc = "done" /\ threads[t].call = "generate_documentation"

\* where the pieces equal to piece stand in the text
Places(doc, piece) == {k \in 1..Len(doc) : doc[k] = piece}

\* the heading at place k is the Rank-th heading of the text
Rank(doc, k) == Cardinality({j \in Places(doc, "## ") : j <= k})

OneSectionEach(doc) ==
    /\ Cardinality(Places(doc, "## ")) = Len(parameters)
    /\ Cardinality(Places(doc, "---\n\n")) = Len(parameters)
    /\ \A k \in Places(doc, "## ") :
          /\ k < Len(doc)
          /\ doc[k + 1] = parameters[Rank(doc, k)].name
          /\ Cardinality({e \in Places(doc, "---\n\n") : e < k}) = Rank(doc, k) - 1

C21_DocumentationPerDefinition ==
    [][ /\ parameters' = parameters
        /\ \A t \in Threads : Documented(t)' =>
              /\ OneSectionEach(threads[t].result.doc)'
              /\ \A u \in Threads : Documented(u) =>
                    threads'[t].result.doc = threads[u].result.doc ]_vars

\* two generate_documentation calls on a registry of two definitions have
\* ended and both texts are held
C21_Witness ==
    /\ Len(parameters) = 2
    /\ \A t \in Threads : Documented(t)
    /\ Len(threads[1].result.doc) > Len(DocHeader)

(***************************************************************************)
(* C22.  For a present parameter the checks run in the order coercion,     *)
(* allowed values, min_value, max_value, min_length, max_length, pattern,  *)
(* custom validator, and the first that fails ends them: when the          *)
(* definition cut down to the checks up to some stage records a violation, *)
(* the whole definition records that very violation, whatever the later    *)
(* checks would say - the custom validator is not called, so it cannot     *)
(* raise.  That violation is the one message recorded for the parameter,   *)
(* and the other parameters are validated all the same: when validate      *)
(* raises ValidationError, the messages are those of the violated          *)
(* definitions, one each, in registration order.                           *)
(***************************************************************************)
Stages == 1..8

\* definition i with the checks up to stage s only: 1 coercion, 2 allowed
\* values, 3 min_value, 4 max_value, 5 min_length, 6 max_length, 7 pattern,
\* 8 custom validator
UpToStage(i, s) ==
    [parameters[i] EXCEPT
        !.allowed_values = IF s >= 2 THEN @ ELSE Nothing,
        !.min_value = IF s >= 3 THEN @ ELSE Nothing,
        !.max_value = IF s >= 4 THEN @ ELSE Nothing,
        !.min_length = IF s >= 5 THEN @ ELSE Nothing,
        !.max_length = IF s >= 6 THEN @ ELSE Nothing,
        !.pattern = IF s >= 7 THEN @ ELSE Nothing,
        !.custom_validator = IF s >= 8 THEN @ ELSE Nothing]

StageResult(i, s) == ValidateParameter(parameters[i].name, RawValue(i), UpToStage(i, s))

\* the checks of definition i up to stage s record a violation
FailsBy(i, s) == StageResult(i, s).exc = "ValidationError"

\* the place of the message of violated definition i among the messages
PlaceOf(i) == Cardinality({j \in Violated : j <= i})

C22_FirstFailureStops ==
    Called =>
        /\ \A i \in Indices : \A s \in Stages :
              (Present(i) /\ FailsBy(i, s)) => ParamResult(i) = StageResult(i, s)
        /\ outcome = "ValidationError" =>
              /\ Len(errors) \in {Cardinality(Violated), Cardinality(Violated) + 1}
              /\ \A i \in Violated : errors[PlaceOf(i)] = MessageOf(i)
        /\ outcome = "TypeError" => \E i \in Indices : Escapes(ParamResult(i))

\* the first parameter is an integer that is not among the allowed values
\* and is odd as well: the allowed-values violation is the one recorded.
\* The second is a str that fails the pattern, on which the custom validator
\* would have raised TypeError: its pattern violation is recorded after it
C22_Witness ==
    /\ outcome = "ValidationError"
    /\ Len(parameters) = 2
    /\ Present(1) /\ FailsBy(1, 2) /\ ~FailsBy(1, 1)
    /\ ~CallCustom(parameters[1].custom_validator[1], Coerced(1).value).truth
    /\ Present(2) /\ FailsBy(2, 7) /\ ~FailsBy(2, 6)
    /\ CallCustom(parameters[2].custom_validator[1], Coerced(2).value).exc = "TypeError"
    /\ errors = <<MessageOf(1), MessageOf(2)>>
    /\ FailedCheck(MessageOf(1), "' must be one of ")

(***************************************************************************)
(* C23.  Missing-parameter handling applies to absent keys only: when the  *)
(* key of a definition is in the input, whatever its value, null           *)
(* included, the parameter gets what coercion and then the constraint      *)
(* checks make of that value; when the key is not in the input, a          *)
(* required parameter gets the missing-required violation and an optional  *)
(* one its default.  (The code asks `value is None` of input_params.get,   *)
(* which is None for a null value as for an absent key.)                   *)
(***************************************************************************)
\* the key of definition i is in the input mapping
KeyPresent(i) == parameters[i].name \in DOMAIN input_params

\* coercion, then the constraint checks, on the value the input holds
OnValue(i) ==
    CheckCoerced(parameters[i].name,
                 ValidateType(parameters[i].name, input_params[parameters[i].name],
                              parameters[i]),
                 parameters[i])

\* what missing-parameter handling yields for definition i
AsMissing(i) ==
    IF parameters[i].required
    THEN Raises(MissingMessage(parameters[i].name, parameters[i]))
    ELSE Returns(parameters[i].default)

C23_MissingOnlyWhenAbsent ==
    Called =>
        \A i \in Indices :
            /\ ParamResult(i) = IF KeyPresent(i) THEN OnValue(i) ELSE AsMissing(i)
            /\ (outcome = "returned" /\ KeyPresent(i)) =>
                  validated[parameters[i].name] = OnValue(i).value

(***************************************************************************)
(* What the relay properties speak about, read off the log and the last    *)
(* answer.                                                                 *)
(***************************************************************************)
\* the places of the log where the event is logged
Logged(event) == {k \in 1..Len(log) : log[k].event = event}

\* the place of the last cleanup before place k (0 when there is none)
LastCleanup(k) ==
    IF \E c \in Logged("cleanup") : c < k
    THEN CHOOSE c \in Logged("cleanup") :
            c < k /\ \A e \in Logged("cleanup") : e < k => e <= c
    ELSE 0

\* the answer is an error status
IsError(answer) == answer.status \in {400, 404, 500}

\* the last request was answered with the final output
FinalOutputReturned ==
    response.handler = "backend_to_frontend" /\ response.status = 200

(***************************************************************************)
(* C24.  Relay step ordering.  Every final_output_sent of the log has,     *)
(* after the last cleanup before it, a translation_input_written (a        *)
(* frontend_to_translation that succeeded) and after that a                *)
(* backend_input_written (a translation_to_backend that succeeded); every  *)
(* backend_input_written has a translation_input_written after the last    *)
(* cleanup before it.  A request is answered with 200 (and then its        *)
(* success is in the log) or with an error status.                         *)
(***************************************************************************)
C24_RelayStepOrdering ==
    /\ \A k \in Logged("final_output_sent") :
          \E a \in Logged("translation_input_written") :
          \E b \in Logged("backend_input_written") :
              LastCleanup(k) < a /\ a < b /\ b < k
    /\ \A b \in Logged("backend_input_written") :
          \E a \in Logged("translation_input_written") : LastCleanup(b) < a /\ a < b
    /\ response.handler # "none" =>
          IF response.status = 200
          THEN log[IF FinalOutputReturned THEN Len(log) - 1 ELSE Len(log)].event =
                  CASE response.handler = "frontend_to_translation" ->
                          "translation_input_written"
                    [] response.handler = "translation_to_backend" ->
                          "backend_input_written"
                    [] OTHER -> "final_output_sent"
          ELSE IsError(response)

\* a final output has been returned after an earlier request was rejected
\* and cleaned up
C24_Witness ==
    /\ FinalOutputReturned
    /\ Cardinality(Logged("cleanup")) = 2
    /\ Cardinality(Logged("final_output_sent")) = 1

(***************************************************************************)
(* C25.  Relay cleanup.  Right after a handler has answered with an error  *)
(* status, and right after backend_to_frontend has returned a final        *)
(* output, none of the four temporary files exists.                        *)
(***************************************************************************)
C25_RelayCleanup ==
    (IsError(response) \/ FinalOutputReturned) =>
        \A f \in TempFiles : files[f] = Nothing

(***************************************************************************)
(* C26.  Relay request isolation.  Whenever a final output is sent, the    *)
(* translated medication in it was stored by a translation_to_backend      *)
(* call that ran while the frontend input now stored was in place: the     *)
(* last backend_input_written before it comes after the last               *)
(* translation_input_written before it; and so the original medication     *)
(* and requested language the translation was stored with are those of    *)
(* the final output.                                                       *)
(***************************************************************************)
\* the last place before k where the event is logged
LastBefore(event, k) ==
    CHOOSE a \in Logged(event) : a < k /\ \A e \in Logged(event) : e < k => e <= a

C26_RelayRequestIsolation ==
    \A k \in Logged("final_output_sent") :
        /\ LastBefore("translation_input_written", k)
              < LastBefore("backend_input_written", k)
        /\ log[LastBefore("backend_input_written", k)].details.original_medication
              = log[k].details.original_medication
        /\ log[LastBefore("backend_input_written", k)].details.requested_language
              = log[k].details.requested_language

====
